---- MODULE Spec2Model ----
(***************************************************************************)
(* HelioSwarm trajectory tooling.                                          *)
(*                                                                         *)
(*   helioswarm/__init__.py          read_positions, write_summary         *)
(*   visualization/hs-single-hour-baselines.py                             *)
(*                                   read_cdf_directory,                   *)
(*                                   find_closest_time_index,              *)
(*                                   plot_positions                        *)
(*                                                                         *)
(* Files are byte sequences, numpy arrays are a shape plus the row-major   *)
(* list of their elements, a CDF file is the record of its variables.      *)
(* Three specifications share the variables:                               *)
(*   Spec         read_positions -> write_summary -> read_cdf_directory    *)
(*   SpecColumns  the column inference of read_positions on its own        *)
(*   SpecPlot     main() of the plotting script on an hourly series        *)
(***************************************************************************)
EXTENDS Integers, Sequences, FiniteSets, TLC

(***************************************************************************)
(* Bounds of the model.                                                    *)
(***************************************************************************)
\* most data rows in one trajectory file
MaxT == 3
\* most bytes of an underline after its leading "------" (SpecColumns)
MaxTail == 6
\* most records of the hourly series handed to the plotting script
MaxLen == 26
\* most records of the arbitrary epoch sequences handed to argmin
MaxShort == 3

(***************************************************************************)
(* Bytes.                                                                  *)
(***************************************************************************)
DASH == 45
SPACE == 32
LF == 10
CR == 13
TAB == 9
ZERO == 48

Min(a, b) == IF a < b THEN a ELSE b
Max(a, b) == IF a > b THEN a ELSE b
Abs(a) == IF a < 0 THEN -a ELSE a

\* Python's s[a:b] on a sequence, a and b 0-based and already clipped by the caller
Slice(s, a, b) == SubSeq(s, a + 1, b)

RECURSIVE Sum(_)
Sum(s) == IF s = <<>> THEN 0 ELSE Head(s) + Sum(Tail(s))

RECURSIVE Flatten(_)
Flatten(ss) == IF ss = <<>> THEN <<>> ELSE Head(ss) \o Flatten(Tail(ss))

\* bytes.rstrip(): ASCII whitespace is stripped from the right
IsWhite(b) == b \in {SPACE, TAB, LF, CR, 11, 12}

RECURSIVE RStrip(_)
RStrip(l) ==
    IF l # <<>> /\ IsWhite(l[Len(l)]) THEN RStrip(SubSeq(l, 1, Len(l) - 1)) ELSE l

RECURSIVE LStrip(_)
LStrip(l) == IF l # <<>> /\ IsWhite(l[1]) THEN LStrip(Tail(l)) ELSE l

\* l.startswith(b"------")
StartsWithDashes(l) == Len(l) >= 6 /\ \A j \in 1..6 : l[j] = DASH

(***************************************************************************)
(* Column inference, read_positions lines 275-278.                         *)
(***************************************************************************)
\* a faulty variant: a field starts at every space of the line
ColStartEverySpace(l) ==
    LET Test(j) == j = 0 \/ (l[j + 1] = SPACE)
    IN  SelectSeq([k \in 1..Len(l) |-> k - 1], Test) \o <<Len(RStrip(l))>>

\* colstart: 0-based offsets; Python's l[j - 1], l[j] are l[j], l[j + 1] here
ColStart(l) ==
    LET Test(j) == j = 0 \/ (l[j] = DASH /\ l[j + 1] = SPACE)
    IN  SelectSeq([k \in 1..Len(l) |-> k - 1], Test) \o <<Len(RStrip(l))>>

Widths(cs) == [k \in 1..(Len(cs) - 1) |-> cs[k + 1] - cs[k]]

(***************************************************************************)
(* Text of a trajectory file.  A time is [year, month, day, hour]; the     *)
(* exports are hourly, so minutes and seconds are not carried.  Numbers    *)
(* are integers (the fixed-point value of the printed decimal).            *)
(***************************************************************************)
MonthAbbr ==
    << <<74, 97, 110>>, <<70, 101, 98>>, <<77, 97, 114>>, <<65, 112, 114>>,
       <<77, 97, 121>>, <<74, 117, 110>>, <<74, 117, 108>>, <<65, 117, 103>>,
       <<83, 101, 112>>, <<79, 99, 116>>, <<78, 111, 118>>, <<68, 101, 99>> >>

IsDigit(b) == b \in ZERO..(ZERO + 9)

RECURSIVE Dec(_)
\* decimal digits of a natural number
Dec(n) == IF n < 10 THEN <<ZERO + n>> ELSE Dec(n \div 10) \o <<ZERO + (n % 10)>>

\* zero-padded to w digits (%Y, %H)
DecZ(n, w) == LET d == Dec(n) IN [j \in 1..(w - Len(d)) |-> ZERO] \o d

\* a signed integer, as printed
Num(v) == IF v < 0 THEN <<DASH>> \o Dec(-v) ELSE Dec(v)

\* right-aligned in w bytes (f"{x:18.6f}", f"{x.day:2d}")
PadLeft(b, w) == [j \in 1..(w - Len(b)) |-> SPACE] \o b

\* "%d %b %Y %H" with the day right-aligned in two bytes
DateText(dt) ==
    PadLeft(Dec(dt.day), 2) \o <<SPACE>> \o MonthAbbr[dt.month] \o <<SPACE>>
        \o DecZ(dt.year, 4) \o <<SPACE>> \o DecZ(dt.hour, 2)

RECURSIVE DigitsValue(_)
DigitsValue(b) ==
    IF b = <<>> THEN 0 ELSE 10 * DigitsValue(SubSeq(b, 1, Len(b) - 1)) + (b[Len(b)] - ZERO)

AllDigits(b) == b # <<>> /\ \A j \in 1..Len(b) : IsDigit(b[j])

\* the day of "%d": two digits, or a space and a digit
DayBytes(x) == IF Len(x) >= 2 /\ x[1] = SPACE THEN <<x[2]>> ELSE Slice(x, 0, Min(2, Len(x)))

\* datetime.strptime(x, "%d %b %Y %H...") raises no ValueError
StrpTimeOk(x) ==
    /\ Len(x) = 14
    /\ AllDigits(DayBytes(x)) /\ DigitsValue(DayBytes(x)) \in 1..31
    /\ x[3] = SPACE /\ x[7] = SPACE /\ x[12] = SPACE
    /\ \E m \in 1..12 : Slice(x, 3, 6) = MonthAbbr[m]
    /\ AllDigits(Slice(x, 7, 11))
    /\ AllDigits(Slice(x, 12, 14)) /\ DigitsValue(Slice(x, 12, 14)) \in 0..23

\* datetime.strptime(x, "%d %b %Y %H..."), where it raises nothing
StrpTime(x) ==
    [year |-> DigitsValue(Slice(x, 7, 11)),
     month |-> CHOOSE m \in 1..12 : Slice(x, 3, 6) = MonthAbbr[m],
     day |-> DigitsValue(DayBytes(x)),
     hour |-> DigitsValue(Slice(x, 12, 14))]

\* nan, as a value no printed number has
NaN == 0 - 999999

\* numpy's float converter raises no ValueError: a blank field or a signed number
FloatOk(x) ==
    LET s == LStrip(RStrip(x))
    IN  s = <<>> \/ AllDigits(IF s[1] = DASH THEN Tail(s) ELSE s)

\* numpy's float converter, where it raises nothing: nan for a blank field
ToFloat(x) ==
    LET s == LStrip(RStrip(x))
    IN  IF s = <<>> THEN NaN
        ELSE IF s[1] = DASH THEN -DigitsValue(Tail(s)) ELSE DigitsValue(s)

\* float subtraction
FSub(x, y) == IF x = NaN \/ y = NaN THEN NaN ELSE x - y

(***************************************************************************)
(* numpy arrays: [shape, a], a the elements in row-major order.            *)
(***************************************************************************)
RECURSIVE Prod(_)
Prod(s) == IF s = <<>> THEN 1 ELSE Head(s) * Prod(Tail(s))

\* numpy.squeeze: the axes of length 1 are dropped
Squeeze(arr) == [shape |-> SelectSeq(arr.shape, LAMBDA n : n # 1), a |-> arr.a]

\* a[start:stop] along the first axis
Rows(arr, start, stop) ==
    LET n == Prod(Tail(arr.shape))
    IN  [shape |-> <<stop - start>> \o Tail(arr.shape),
         a |-> SubSeq(arr.a, start * n + 1, stop * n)]

\* a call's outcome: exc is "" and the array is [shape, a], or exc names the exception
Raised(e) == [exc |-> e, shape |-> <<>>, a |-> <<>>]

Array(r) == [shape |-> r.shape, a |-> r.a]

\* numpy.stack(arrays, axis=1): shapes must agree, and axis 1 must exist in the result
Stack1(arrays) ==
    LET first == arrays[1]
        n == Len(arrays)
    IN  IF \E j \in 1..n : arrays[j].shape # first.shape THEN Raised("ValueError")
        ELSE IF first.shape = <<>> THEN Raised("AxisError")
        ELSE LET d0 == first.shape[1]
                 rest == Tail(first.shape)
                 r == Prod(rest)
             IN  [exc |-> "",
                  shape |-> <<d0, n>> \o rest,
                  a |-> [x \in 1..(d0 * n * r) |->
                            LET t == (x - 1) \div (n * r)
                                j == ((x - 1) \div r) % n
                                e == (x - 1) % r
                            IN  arrays[j + 1].a[t * r + e + 1]]]

\* (x != y).any() on two arrays of at most one axis: "true", "false", or "error"
\* when the shapes do not broadcast
NotEqualAny(x, y) ==
    LET B(v) == IF v THEN "true" ELSE "false"
    IN  IF x.shape = y.shape THEN B(\E j \in 1..Len(x.a) : x.a[j] # y.a[j])
        ELSE IF x.shape = <<>> THEN B(\E j \in 1..Len(y.a) : y.a[j] # x.a[1])
        ELSE IF y.shape = <<>> THEN B(\E j \in 1..Len(x.a) : x.a[j] # y.a[1])
        ELSE "error"

\* numpy.repeat(arr, n, axis=ax): every element along axis ax is repeated n times
Repeat(arr, n, ax) ==
    LET inner == Prod(SubSeq(arr.shape, ax + 2, Len(arr.shape)))
    IN  [shape |-> [arr.shape EXCEPT ![ax + 1] = @ * n],
         a |-> [y \in 1..(Len(arr.a) * n) |->
                  arr.a[((y - 1) \div (inner * n)) * inner + ((y - 1) % inner) + 1]]]

\* arr.reshape(-1, d1, d2, d3): the first axis takes what is left
Reshape(arr, d1, d2, d3) ==
    [shape |-> <<Len(arr.a) \div (d1 * d2 * d3), d1, d2, d3>>, a |-> arr.a]

\* x - y on arrays of one shape
Minus(x, y) == [shape |-> x.shape, a |-> [j \in 1..Len(x.a) |-> FSub(x.a[j], y.a[j])]]

\* numpy.diff
Diff(v) == [j \in 1..(Len(v) - 1) |-> v[j + 1] - v[j]]

\* numpy.nonzero(v)[0]: the 0-based indices of the nonzero elements, ascending
NonZero(v) == SelectSeq([j \in 1..Len(v) |-> j - 1], LAMBDA j : v[j + 1] # 0)

\* the records of an array: its slices along the first axis
Records(arr) ==
    LET n == Prod(Tail(arr.shape))
    IN  [t \in 1..arr.shape[1] |-> SubSeq(arr.a, (t - 1) * n + 1, t * n)]

(***************************************************************************)
(* CDF types.  CDF_TIME_TT2000 counts from the year 2000; the model's      *)
(* calendar has months of 31 days and counts hours.  CDF_REAL8 holds a     *)
(* float as it is; CDF_REAL4 keeps 24 bits of it.                          *)
(***************************************************************************)
ToTT2000(dt) ==
    (((dt.year - 2000) * 12 + (dt.month - 1)) * 31 + (dt.day - 1)) * 24 + dt.hour

FromTT2000(n) ==
    [year |-> 2000 + n \div (12 * 31 * 24),
     month |-> ((n \div (31 * 24)) % 12) + 1,
     day |-> ((n \div 24) % 31) + 1,
     hour |-> n % 24]

RECURSIVE Real4(_)
Real4(x) ==
    IF x = NaN THEN NaN
    ELSE IF x < 0 THEN -Real4(-x)
    ELSE IF x < 16777216 THEN x
    ELSE 2 * Real4(x \div 2)

\* byte-wise order of two strings
RECURSIVE StrLess(_, _)
StrLess(x, y) ==
    IF y = <<>> THEN FALSE
    ELSE IF x = <<>> THEN TRUE
    ELSE IF x[1] # y[1] THEN x[1] < y[1]
    ELSE StrLess(Tail(x), Tail(y))

\* sorted(names)
RECURSIVE Sorted(_)
Sorted(names) ==
    IF names = {} THEN <<>>
    ELSE LET m == CHOOSE x \in names : \A y \in names \ {x} : StrLess(x, y)
         IN  <<m>> \o Sorted(names \ {m})

(***************************************************************************)
(* The input directory.  Spacecraft s has one file; its data row t carries *)
(* a time and six numbers (x, y, z, magnitude, true anomaly, mass flow).   *)
(***************************************************************************)
NSC == 9

SC == 0..(NSC - 1)

\* times the rows are drawn from, in chronological order
TimePool ==
    << [year |-> 2029, month |-> 11, day |-> 30, hour |-> 23],
       [year |-> 2029, month |-> 12, day |-> 1, hour |-> 0],
       [year |-> 2029, month |-> 12, day |-> 1, hour |-> 1],
       [year |-> 2030, month |-> 1, day |-> 1, hour |-> 0] >>

NPool == Len(TimePool)

\* the number in field fld (1..6) of data row t (0-based) of spacecraft s
Cell(in, t, s, fld) ==
    LET v == 100 * fld + (7 * fld + 3 * t + 1) * (s + 1)
    IN  IF in.neg /\ fld <= 3 /\ s % 2 = 1 THEN -v ELSE v

\* the underline: 14 dashes under the time, then gap spaces and 5 dashes per number
Underline(lay) ==
    [j \in 1..14 |-> DASH]
        \o Flatten([fld \in 1..6 |-> [j \in 1..lay.gap |-> SPACE] \o [j \in 1..5 |-> DASH]])
        \o lay.trail \o lay.eol

DataRow(in, t, s) ==
    DateText(TimePool[in.tseq[s][t + 1]])
        \o Flatten([fld \in 1..6 |-> PadLeft(Num(Cell(in, t, s, fld)), in.layout.gap + 5)])
        \o in.layout.trail \o in.layout.eol

\* two header lines (the title and the column names), the underline, the rows
TrajectoryFile(in, s) ==
    <<83, 97, 116, ZERO + s>> \o in.layout.eol
        \o <<84, 105, 109, 101, SPACE, 120, SPACE, 45, 45, 45, 45, 45>> \o in.layout.eol
        \o Underline(in.layout)
        \o Flatten([t \in 1..Len(in.tseq[s]) |-> DataRow(in, t - 1, s)])

\* f"Node{i}_preProcessed.txt" if i else "Chief.txt"
FName(j) == IF j = 0 THEN <<"Chief.txt">> ELSE <<"Node", j, "_preProcessed.txt">>

\* the directory: Chief.txt is the hub's file, Node<j>_preProcessed.txt node j's
Directory(in) ==
    [n \in {<<"Chief.txt">>} \cup {<<"Node", j, "_preProcessed.txt">> : j \in SC \ {0}} |->
        IF n = <<"Chief.txt">> THEN TrajectoryFile(in, 0) ELSE TrajectoryFile(in, n[2])]

(***************************************************************************)
(* Reading a file.                                                         *)
(***************************************************************************)
\* next(f): the line that starts at offset p, its terminator included
LineAt(bytes, p) ==
    LET ends == {e \in (p + 1)..Len(bytes) : bytes[e] = LF}
        stop == IF ends = {} THEN Len(bytes) ELSE CHOOSE e \in ends : \A x \in ends : e <= x
    IN  SubSeq(bytes, p + 1, stop)

RECURSIVE LinesFrom(_, _)
LinesFrom(bytes, p) ==
    IF p >= Len(bytes) THEN <<>>
    ELSE LET ln == LineAt(bytes, p) IN <<ln>> \o LinesFrom(bytes, p + Len(ln))

\* the fields of a line under delimiter=widths (slices past the end are clipped)
SplitLine(ln, w) ==
    [fld \in 1..Len(w) |->
        LET st == Sum(SubSeq(w, 1, fld - 1))
        IN  Slice(ln, Min(st, Len(ln)), Min(st + w[fld], Len(ln)))]

\* numpy.genfromtxt(f, delimiter=w, usecols=cols[, converters={0: strptime}]) from
\* offset p to the end of the file: the squeezed array, or a ValueError when a
\* column is missing or a converter fails
GenFromTxt(bytes, p, w, cols, isdate) ==
    LET lines == LinesFrom(bytes, p)
        ok(x) == IF isdate THEN StrpTimeOk(x) ELSE FloatOk(x)
        conv(x) == IF isdate THEN StrpTime(x) ELSE ToFloat(x)
        fields == [r \in 1..Len(lines) |-> SplitLine(lines[r], w)]
    IN  IF \E r \in 1..Len(lines), c \in 1..Len(cols) :
              \/ cols[c] + 1 > Len(w)
              \/ ~ok(fields[r][cols[c] + 1])
        THEN Raised("ValueError")
        ELSE LET sq == Squeeze([shape |-> <<Len(lines), Len(cols)>>,
                                a |-> Flatten([r \in 1..Len(lines) |->
                                        [c \in 1..Len(cols) |-> conv(fields[r][cols[c] + 1])]])])
             IN  [exc |-> "", shape |-> sq.shape, a |-> sq.a]

VARIABLES
    pc,          \* position of the running script
    inp,         \* the contents of in_directory: [tseq, layout, neg]
    i,           \* loop index of read_positions
    fpos,        \* offset of the open file f
    l,           \* the last line read from f
    colstart,    \* offsets of the fields
    widths,      \* widths of the fields
    pos,         \* f.tell() after the underline
    dates,       \* list of per-file time arrays
    positions,   \* list of per-file position arrays
    true_anom,   \* list of per-file true anomaly arrays
    ret,         \* what read_positions returned or raised
    baselines,   \* write_summary: head - tail
    yyyymm,      \* write_summary: year * 100 + month of every record
    starts,      \* write_summary: first record of every file
    stops,       \* write_summary: end of every file
    nfile,       \* write_summary: index of the file being written
    outdir,      \* out_directory: file name -> CDF
    wret,        \* what write_summary returned or raised
    sorted_files,        \* read_cdf_directory: names still to read
    position_data_list,  \* read_cdf_directory
    epoch_data_list,     \* read_cdf_directory
    position_data,       \* Position of all files, concatenated
    epoch_data,          \* Epoch of all files, concatenated
    rret,                \* what read_cdf_directory returned or raised
    target_time,         \* the time asked for, parsed
    closest_index,       \* find_closest_time_index's result
    window               \* plot_positions: position_data_window, or its IndexError

colVars == <<l, colstart, widths>>
readVars == <<inp, i, fpos, pos, dates, positions, true_anom, ret>>
writeVars == <<baselines, yyyymm, starts, stops, nfile, outdir, wret>>
cdfVars == <<sorted_files, position_data_list, epoch_data_list, position_data, epoch_data, rret>>
plotVars == <<target_time, closest_index, window>>
vars == <<pc, colVars, readVars, writeVars, cdfVars, plotVars>>

Running == [kind |-> "running"]

NoArray == [shape |-> <<0>>, a |-> <<>>]

ColIdle == l = <<>> /\ colstart = <<>> /\ widths = <<>>

ReadIdle ==
    /\ inp = [tseq |-> <<>>]
    /\ i = 0
    /\ fpos = 0
    /\ pos = 0
    /\ dates = <<>>
    /\ positions = <<>>
    /\ true_anom = <<>>
    /\ ret = Running

WriteIdle ==
    /\ baselines = NoArray
    /\ yyyymm = <<>>
    /\ starts = <<>>
    /\ stops = <<>>
    /\ nfile = 0
    /\ outdir = <<>>
    /\ wret = Running

CdfIdle ==
    /\ sorted_files = <<>>
    /\ position_data_list = <<>>
    /\ epoch_data_list = <<>>
    /\ position_data = NoArray
    /\ epoch_data = NoArray
    /\ rret = Running

PlotIdle ==
    /\ target_time = [year |-> 2000, month |-> 1, day |-> 1, hour |-> 0]
    /\ closest_index = 0
    /\ window = [exc |-> "", start_index |-> 0, end_index |-> 0, selected |-> <<>>]

(***************************************************************************)
(* The inputs Spec starts from.                                            *)
(***************************************************************************)
Layouts ==
    { [gap |-> 1, trail |-> <<>>, eol |-> <<LF>>],
      [gap |-> 2, trail |-> <<SPACE>>, eol |-> <<LF>>],
      [gap |-> 1, trail |-> <<>>, eol |-> <<CR, LF>>] }

PlainLayout == [gap |-> 1, trail |-> <<>>, eol |-> <<LF>>]

\* hourly rows (the pool's last time repeats once it is exhausted), and rows
\* that all carry one time
Hourly(T) == [t \in 1..T |-> Min(t, NPool)]
Constant(T) == [t \in 1..T |-> 2]

\* every file carries the hub's times
Aligned(h) == [s \in SC |-> h]

\* the nodes of S carry another time in row r
TimeOff(h, S, r) ==
    [s \in SC |-> IF s \in S THEN [h EXCEPT ![r] = (h[r] % NPool) + 1] ELSE h]

\* node n has one row fewer (d = -1) or one row more (d = 1) than the others
RowsOff(h, n, d) ==
    [s \in SC |-> IF s # n THEN h
                  ELSE IF d < 0 THEN SubSeq(h, 1, Len(h) - 1) ELSE Append(h, h[Len(h)])]

Nodes == SC \ {0}

Inputs ==
    \* any times, in any order, the same in all nine files
    {[tseq |-> Aligned(h), layout |-> PlainLayout, neg |-> FALSE] :
        h \in UNION {[1..T -> 1..NPool] : T \in 1..MaxT}}
    \cup
    \* every layout and sign
    {[tseq |-> Aligned(Hourly(T)), layout |-> lay, neg |-> ng] :
        T \in 1..MaxT, lay \in Layouts, ng \in BOOLEAN}
    \cup
    \* one node, two nodes or all nodes off the hub's times in the first or last row
    UNION {{[tseq |-> TimeOff(Hourly(T), S, r), layout |-> PlainLayout, neg |-> TRUE] :
                S \in {X \in SUBSET Nodes : Cardinality(X) \in {1, 2, NSC - 1}}, r \in {1, T}} :
            T \in 1..MaxT}
    \cup
    \* one node with a row fewer or a row more
    UNION {{[tseq |-> RowsOff(h, n, d), layout |-> PlainLayout, neg |-> TRUE] :
                h \in {Hourly(T), Constant(T)}, n \in Nodes,
                d \in (IF T = 1 THEN {1} ELSE {-1, 1})} :
            T \in 1..MaxT}

Init ==
    /\ pc = "skeleton"
    /\ inp \in Inputs
    /\ i = 0
    /\ fpos = 0
    /\ pos = 0
    /\ dates = <<>>
    /\ positions = <<>>
    /\ true_anom = <<>>
    /\ ret = Running
    /\ ColIdle
    /\ WriteIdle
    /\ CdfIdle
    /\ PlotIdle

(***************************************************************************)
(* read_positions.                                                         *)
(***************************************************************************)
F == Directory(inp)[FName(i)]

Raise(e, m) == [kind |-> "raise", exc |-> e, msg |-> m]

\* with open(...) as f: l = b""
Open ==
    /\ pc = "open"
    /\ fpos' = 0
    /\ l' = <<>>
    /\ pc' = "scan"
    /\ UNCHANGED <<inp, i, pos, dates, positions, true_anom, ret, colstart, widths>>
    /\ UNCHANGED <<writeVars, cdfVars, plotVars>>

\* while not l.startswith(b"------"): l = next(f)
ScanHeader ==
    /\ pc = "scan"
    /\ ~StartsWithDashes(l)
    /\ IF fpos >= Len(F)
       THEN /\ ret' = Raise("StopIteration", <<>>)
            /\ pc' = "read_done"
            /\ UNCHANGED <<l, fpos>>
       ELSE /\ l' = LineAt(F, fpos)
            /\ fpos' = fpos + Len(LineAt(F, fpos))
            /\ UNCHANGED <<pc, ret>>
    /\ UNCHANGED <<inp, i, pos, dates, positions, true_anom, colstart, widths>>
    /\ UNCHANGED <<writeVars, cdfVars, plotVars>>

\* colstart, widths, pos = f.tell()
Columns ==
    /\ pc = "scan"
    /\ StartsWithDashes(l)
    /\ colstart' = ColStart(l)
    /\ widths' = Widths(ColStart(l))
    /\ pos' = fpos
    /\ pc' = "dates"
    /\ UNCHANGED <<inp, i, fpos, l, dates, positions, true_anom, ret>>
    /\ UNCHANGED <<writeVars, cdfVars, plotVars>>

\* the data rows a pass reads: genfromtxt reads f from its offset to the end
ReadRows(cols, isdate) == GenFromTxt(F, fpos, widths, cols, isdate)

\* dates.append(numpy.genfromtxt(f, ..., converters={0: strptime}, usecols=(0,)))
ReadDates ==
    /\ pc = "dates"
    /\ LET r == ReadRows(<<0>>, TRUE)
       IN  IF r.exc # ""
           THEN /\ ret' = Raise(r.exc, <<>>)
                /\ pc' = "read_done"
                /\ UNCHANGED <<dates, fpos>>
           ELSE /\ dates' = Append(dates, Array(r))
                /\ fpos' = Len(F)
                /\ pc' = "seek_positions"
                /\ UNCHANGED ret
    /\ UNCHANGED <<inp, i, pos, positions, true_anom, colVars>>
    /\ UNCHANGED <<writeVars, cdfVars, plotVars>>

\* a faulty variant: the offset is left where the previous pass ended
SeekNowhere(p) == fpos

\* f.seek(pos, os.SEEK_SET): the new offset
Seek(p) == p

SeekPositions ==
    /\ pc = "seek_positions"
    /\ fpos' = Seek(pos)
    /\ pc' = "positions"
    /\ UNCHANGED <<inp, i, pos, dates, positions, true_anom, ret, colVars>>
    /\ UNCHANGED <<writeVars, cdfVars, plotVars>>

\* positions.append(numpy.genfromtxt(f, delimiter=widths, usecols=(1, 2, 3)))
ReadPositions ==
    /\ pc = "positions"
    /\ LET r == ReadRows(<<1, 2, 3>>, FALSE)
       IN  IF r.exc # ""
           THEN /\ ret' = Raise(r.exc, <<>>)
                /\ pc' = "read_done"
                /\ UNCHANGED <<positions, fpos>>
           ELSE /\ positions' = Append(positions, Array(r))
                /\ fpos' = Len(F)
                /\ pc' = "seek_true_anom"
                /\ UNCHANGED ret
    /\ UNCHANGED <<inp, i, pos, dates, true_anom, colVars>>
    /\ UNCHANGED <<writeVars, cdfVars, plotVars>>

SeekTrueAnom ==
    /\ pc = "seek_true_anom"
    /\ fpos' = Seek(pos)
    /\ pc' = "true_anom"
    /\ UNCHANGED <<inp, i, pos, dates, positions, true_anom, ret, colVars>>
    /\ UNCHANGED <<writeVars, cdfVars, plotVars>>

\* true_anom.append(numpy.genfromtxt(f, delimiter=widths, usecols=(5,))); the
\* file is closed and the loop goes on to the next file, or to the check
ReadTrueAnom ==
    /\ pc = "true_anom"
    /\ LET r == ReadRows(<<5>>, FALSE)
       IN  IF r.exc # ""
           THEN /\ ret' = Raise(r.exc, <<>>)
                /\ pc' = "read_done"
                /\ UNCHANGED <<true_anom, fpos, i>>
           ELSE /\ true_anom' = Append(true_anom, Array(r))
                /\ fpos' = Len(F)
                /\ i' = IF i + 1 < NSC THEN i + 1 ELSE 1
                /\ pc' = IF i + 1 < NSC THEN "open" ELSE "check"
                /\ UNCHANGED ret
    /\ UNCHANGED <<inp, pos, dates, positions, colVars>>
    /\ UNCHANGED <<writeVars, cdfVars, plotVars>>

\* what "(dates[i] != dates[0]).any()" does: with shapes that do not broadcast
\* numpy either raises a ValueError or returns a plain bool, which has no any()
DateCheckOutcomes(j) ==
    LET ne == NotEqualAny(dates[j + 1], dates[1])
    IN  IF ne = "error" THEN {"ValueError", "AttributeError"} ELSE {ne}

\* for i in range(1, 9): if (dates[i] != dates[0]).any(): raise ValueError(...)
CheckDates ==
    /\ pc = "check"
    /\ \E o \in DateCheckOutcomes(i) :
          IF o = "true"
          THEN /\ ret' = Raise("ValueError", <<"N", i, " dates do not match hub.">>)
               /\ pc' = "read_done"
               /\ UNCHANGED i
          ELSE IF o = "false"
          THEN /\ i' = IF i + 1 < NSC THEN i + 1 ELSE i
               /\ pc' = IF i + 1 < NSC THEN "check" ELSE "stack"
               /\ UNCHANGED ret
          ELSE /\ ret' = Raise(o, <<"shapes do not broadcast">>)
               /\ pc' = "read_done"
               /\ UNCHANGED i
    /\ UNCHANGED <<inp, fpos, pos, dates, positions, true_anom, colVars>>
    /\ UNCHANGED <<writeVars, cdfVars, plotVars>>

\* pos_out = numpy.stack(positions, axis=1); true_anom = numpy.stack(true_anom,
\* axis=1); return dates[0], pos_out, true_anom
StackAndReturn ==
    /\ pc = "stack"
    /\ LET pos_out == Stack1(positions)
           ta == Stack1(true_anom)
       IN  ret' = IF pos_out.exc # "" THEN Raise(pos_out.exc, <<"stack">>)
                  ELSE IF ta.exc # "" THEN Raise(ta.exc, <<"stack">>)
                  ELSE [kind |-> "return", times |-> dates[1],
                        positions |-> Array(pos_out), true_anom |-> Array(ta)]
    /\ pc' = "read_done"
    /\ UNCHANGED <<inp, i, fpos, pos, dates, positions, true_anom, colVars>>
    /\ UNCHANGED <<writeVars, cdfVars, plotVars>>

ReadNext ==
    \/ Open
    \/ ScanHeader
    \/ Columns
    \/ ReadDates
    \/ SeekPositions
    \/ ReadPositions
    \/ SeekTrueAnom
    \/ ReadTrueAnom
    \/ CheckDates
    \/ StackAndReturn

(***************************************************************************)
(* write_summary.                                                          *)
(***************************************************************************)
\* "hsconcept_l2-summary"
LogicalSource ==
    <<104, 115, 99, 111, 110, 99, 101, 112, 116, 95, 108, 50, 45,
      115, 117, 109, 109, 97, 114, 121>>

\* "_v0.2.0"
VersionTag == <<95, 118, 48, 46, 50, 46, 48>>

\* ".cdf"
DotCdf == <<46, 99, 100, 102>>

\* Logical_source + "_00000000_v" + ver + ".cdf"
SkeletonName == LogicalSource \o <<95>> \o [j \in 1..8 |-> ZERO] \o VersionTag \o DotCdf

\* f"hsconcept_l2-summary_{yyyymm[start]}01_v0.2.0" + ".cdf"
CdfName(ym) == LogicalSource \o <<95>> \o Dec(ym) \o <<ZERO, ZERO + 1>> \o VersionTag \o DotCdf

\* a CDF made from the skeleton: the record-varying variables hold no record
EmptyCdf == [Epoch |-> <<>>, Position |-> <<>>, Baseline |-> <<>>, True_Anomaly |-> <<>>]

AddFile(dir, name, cdf) ==
    [n \in DOMAIN dir \cup {name} |-> IF n = name THEN cdf ELSE dir[n]]

\* skeleton = make_summary_skeleton(out_directory)
MakeSkeleton ==
    /\ pc = "skeleton"
    /\ outdir' = AddFile(outdir, SkeletonName, EmptyCdf)
    /\ pc' = "open"
    /\ UNCHANGED <<baselines, yyyymm, starts, stops, nfile, wret>>
    /\ UNCHANGED <<colVars, readVars, cdfVars, plotVars>>

\* read_positions raised: write_summary ends with its exception
ReadRaised ==
    /\ pc = "read_done"
    /\ ret.kind = "raise"
    /\ wret' = ret
    /\ pc' = "write_done"
    /\ UNCHANGED <<baselines, yyyymm, starts, stops, nfile, outdir>>
    /\ UNCHANGED <<colVars, readVars, cdfVars, plotVars>>

\* a faulty variant: the vector points from the second index to the first
BaselinesReversed(p) ==
    Minus(Reshape(Repeat(p, NSC, 1), NSC, NSC, 3), Reshape(Repeat(p, NSC, 0), NSC, NSC, 3))

\* head = numpy.repeat(positions, 9, axis=0).reshape(-1, 9, 9, 3)
\* tail = numpy.repeat(positions, 9, axis=1).reshape(-1, 9, 9, 3)
\* baselines = head - tail
Baselines(p) ==
    Minus(Reshape(Repeat(p, NSC, 0), NSC, NSC, 3), Reshape(Repeat(p, NSC, 1), NSC, NSC, 3))

ComputeBaselines ==
    /\ pc = "read_done"
    /\ ret.kind = "return"
    /\ baselines' = Baselines(ret.positions)
    /\ pc' = "months"
    /\ UNCHANGED <<yyyymm, starts, stops, nfile, outdir, wret>>
    /\ UNCHANGED <<colVars, readVars, cdfVars, plotVars>>

\* numpy.vectorize(lambda x: x.year * 100 + x.month)(dates)
YearMonth(times) == [t \in 1..Len(times.a) |-> times.a[t].year * 100 + times.a[t].month]

\* starts = numpy.concatenate(([0], numpy.nonzero(numpy.diff(yyyymm))[0] + 1))
Starts(ym) == <<0>> \o [j \in 1..Len(NonZero(Diff(ym))) |-> NonZero(Diff(ym))[j] + 1]

\* stops = numpy.concatenate((starts[1:], [yyyymm.shape[0]]))
Stops(st, ym) == Tail(st) \o <<Len(ym)>>

SplitMonths ==
    /\ pc = "months"
    /\ yyyymm' = YearMonth(ret.times)
    /\ starts' = Starts(YearMonth(ret.times))
    /\ stops' = Stops(Starts(YearMonth(ret.times)), YearMonth(ret.times))
    /\ nfile' = 1
    /\ pc' = "write"
    /\ UNCHANGED <<baselines, outdir, wret>>
    /\ UNCHANGED <<colVars, readVars, cdfVars, plotVars>>

\* what the four assignments of the loop body leave in the new file
SummaryCdf(start, stop) ==
    [Epoch |-> [t \in 1..(stop - start) |-> ToTT2000(ret.times.a[start + t])],
     Position |-> Records(Rows(ret.positions, start, stop)),
     Baseline |-> Records(Rows(baselines, start, stop)),
     True_Anomaly |->
        LET recs == Records(Rows(ret.true_anom, start, stop))
        IN  [t \in 1..Len(recs) |-> [s \in 1..Len(recs[t]) |-> Real4(recs[t][s])]]]

\* one turn of "for start, stop in zip(starts, stops)": spacepy.pycdf.CDF(outcdf,
\* skeleton) raises when outcdf exists; after the last file write_summary returns
WriteFile ==
    /\ pc = "write"
    /\ LET start == starts[nfile]
           stop == stops[nfile]
           name == CdfName(yyyymm[start + 1])
       IN  IF name \in DOMAIN outdir
           THEN /\ wret' = Raise("CDFError", <<"CDF_EXISTS">>)
                /\ pc' = "write_done"
                /\ UNCHANGED <<outdir, nfile>>
           ELSE /\ outdir' = AddFile(outdir, name, SummaryCdf(start, stop))
                /\ nfile' = nfile + 1
                /\ pc' = IF nfile < Len(starts) THEN "write" ELSE "write_done"
                /\ wret' = IF nfile < Len(starts) THEN wret ELSE [kind |-> "return"]
    /\ UNCHANGED <<baselines, yyyymm, starts, stops>>
    /\ UNCHANGED <<colVars, readVars, cdfVars, plotVars>>

WriteNext ==
    \/ MakeSkeleton
    \/ ReadRaised
    \/ ComputeBaselines
    \/ SplitMonths
    \/ WriteFile

(***************************************************************************)
(* read_cdf_directory, run on out_directory once write_summary has ended.  *)
(***************************************************************************)
\* file_name.endswith('.cdf')
EndsWithCdf(name) ==
    Len(name) >= Len(DotCdf) /\ SubSeq(name, Len(name) - Len(DotCdf) + 1, Len(name)) = DotCdf

\* a faulty variant: the files are taken in descending order of their names
NewestFirst(dir) ==
    LET asc == Sorted({n \in DOMAIN dir : EndsWithCdf(n)})
    IN  [j \in 1..Len(asc) |-> asc[Len(asc) + 1 - j]]

\* sorted([file_name for file_name in os.listdir(directory) if file_name.endswith('.cdf')])
SortedFiles(dir) == Sorted({n \in DOMAIN dir : EndsWithCdf(n)})

ListDirectory ==
    /\ pc = "write_done"
    /\ sorted_files' = SortedFiles(outdir)
    /\ position_data_list' = <<>>
    /\ epoch_data_list' = <<>>
    /\ pc' = "read_cdf"
    /\ UNCHANGED <<position_data, epoch_data, rret>>
    /\ UNCHANGED <<colVars, readVars, writeVars, plotVars>>

\* cdf['Position'][:]: all records, as an array (records, 9, 3)
PositionOf(cdf) == [shape |-> <<Len(cdf.Position), NSC, 3>>, a |-> Flatten(cdf.Position)]

\* cdf['Epoch'][:]: all records, as datetimes
EpochOf(cdf) ==
    [shape |-> <<Len(cdf.Epoch)>>, a |-> [t \in 1..Len(cdf.Epoch) |-> FromTT2000(cdf.Epoch[t])]]

\* one turn of "for file_name in sorted_files"
ReadCdf ==
    /\ pc = "read_cdf"
    /\ sorted_files # <<>>
    /\ position_data_list' = Append(position_data_list, PositionOf(outdir[Head(sorted_files)]))
    /\ epoch_data_list' = Append(epoch_data_list, EpochOf(outdir[Head(sorted_files)]))
    /\ sorted_files' = Tail(sorted_files)
    /\ UNCHANGED <<pc, position_data, epoch_data, rret>>
    /\ UNCHANGED <<colVars, readVars, writeVars, plotVars>>

\* numpy.concatenate(arrays, axis=0) of arrays that agree on the other axes
Concatenate(arrays) ==
    [shape |-> <<Sum([j \in 1..Len(arrays) |-> arrays[j].shape[1]])>> \o Tail(arrays[1].shape),
     a |-> Flatten([j \in 1..Len(arrays) |-> arrays[j].a])]

\* the concatenation; epoch_data[0] raises an IndexError when there is no record
ConcatenateAll ==
    /\ pc = "read_cdf"
    /\ sorted_files = <<>>
    /\ position_data' = Concatenate(position_data_list)
    /\ epoch_data' = Concatenate(epoch_data_list)
    /\ rret' = IF Concatenate(epoch_data_list).a = <<>>
               THEN Raise("IndexError", <<"first_time">>)
               ELSE [kind |-> "return"]
    /\ pc' = "cdf_done"
    /\ UNCHANGED <<sorted_files, position_data_list, epoch_data_list>>
    /\ UNCHANGED <<colVars, readVars, writeVars, plotVars>>

CdfNext ==
    \/ ListDirectory
    \/ ReadCdf
    \/ ConcatenateAll

Next == ReadNext \/ WriteNext \/ CdfNext

Spec == Init /\ [][Next]_vars

\* ---- what the input directory holds, for the statements below ----
HubTimes == [t \in 1..Len(inp.tseq[0]) |-> TimePool[inp.tseq[0][t]]]

NRows == Len(inp.tseq[0])

\* all nine files have the same number of data rows
SameRowCount == \A s \in SC : Len(inp.tseq[s]) = NRows

\* the nodes whose times differ from the hub's in some record
NodesOff == {n \in Nodes : \E t \in 1..NRows : inp.tseq[n][t] # inp.tseq[0][t]}

AlignedInput == SameRowCount /\ NodesOff = {}

\* the hub's times never go back
NonDecreasing == \A t \in 1..(NRows - 1) : ToTT2000(HubTimes[t]) <= ToTT2000(HubTimes[t + 1])

\* the records of the input whose time falls in month ym, in input order (0-based)
RowsOfMonth(ym) ==
    SelectSeq([t \in 1..NRows |-> t - 1],
              LAMBDA t : HubTimes[t + 1].year * 100 + HubTimes[t + 1].month = ym)

MonthsPresent == {HubTimes[t].year * 100 + HubTimes[t].month : t \in 1..NRows}

\* the .cdf files of out_directory other than the skeleton
DataFiles == {n \in DOMAIN outdir : EndsWithCdf(n)} \ {SkeletonName}

\* read_positions has run to its end
ReadEnded == pc \in {"read_done", "months", "write", "write_done", "read_cdf", "cdf_done"}

\* C1 as stated, on directories whose nine files have equally many rows:
\* read_positions raises the ValueError naming the lowest node whose times differ
\* from the hub's, and returns when no node's times differ.
C1_AsStated ==
    (ReadEnded /\ SameRowCount) =>
        IF NodesOff # {}
        THEN /\ ret.kind = "raise"
             /\ ret.exc = "ValueError"
             /\ ret.msg = <<"N", CHOOSE n \in NodesOff : \A m \in NodesOff : n <= m,
                            " dates do not match hub.">>
        ELSE ret.kind = "return"

\* C1 holds of directories with two rows or more in every file
C1_FromTwoRows == NRows >= 2 => C1_AsStated

\* C2: in every file write_summary wrote, Baseline[t][i][j][c] is
\* Position[t][j][c] - Position[t][i][c]: the vector from spacecraft i to j.
C2_Baselines ==
    \A n \in DataFiles :
        /\ Len(outdir[n].Baseline) = Len(outdir[n].Position)
        /\ \A t \in 1..Len(outdir[n].Position) :
              /\ Len(outdir[n].Baseline[t]) = NSC * NSC * 3
              /\ \A a \in SC, b \in SC, c \in 0..2 :
                    outdir[n].Baseline[t][(a * NSC + b) * 3 + c + 1]
                      = outdir[n].Position[t][b * 3 + c + 1] - outdir[n].Position[t][a * 3 + c + 1]

\* a file holds a record whose [3, 4, 1] baseline is N4's y minus N3's y, not zero
C2_Witness ==
    \E n \in DataFiles : \E t \in 1..Len(outdir[n].Baseline) :
        /\ outdir[n].Baseline[t][(3 * NSC + 4) * 3 + 2]
             = outdir[n].Position[t][4 * 3 + 2] - outdir[n].Position[t][3 * 3 + 2]
        /\ outdir[n].Baseline[t][(3 * NSC + 4) * 3 + 2] # 0

\* C3 as stated: on nine time-aligned files of T >= 1 rows read_positions returns
\* the hub's T times, positions (T, 9, 3) and true anomaly (T, 9), taken from
\* fields 1..3 and 5 of row t of spacecraft s's file.
C3_AsStated ==
    (ReadEnded /\ AlignedInput /\ NRows >= 1) =>
        /\ ret.kind = "return"
        /\ ret.times = [shape |-> <<NRows>>, a |-> HubTimes]
        /\ ret.positions.shape = <<NRows, NSC, 3>>
        /\ ret.true_anom.shape = <<NRows, NSC>>
        /\ \A t \in 0..(NRows - 1), s \in SC :
              /\ \A c \in 0..2 :
                    ret.positions.a[(t * NSC + s) * 3 + c + 1] = Cell(inp, t, s, c + 1)
              /\ ret.true_anom.a[t * NSC + s + 1] = Cell(inp, t, s, 5)

\* C3 holds from two rows on
C3_FromTwoRows == NRows >= 2 => C3_AsStated

\* C6: with non-decreasing hub times, what read_cdf_directory returns from the
\* directory write_summary filled equals what read_positions returned.
C6_RoundTrip ==
    (pc = "cdf_done" /\ ret.kind = "return" /\ NonDecreasing) =>
        /\ rret.kind = "return"
        /\ position_data = ret.positions
        /\ epoch_data = ret.times

\* the round trip went through the skeleton and two data files
C6_Witness ==
    /\ pc = "cdf_done"
    /\ ret.kind = "return"
    /\ NonDecreasing
    /\ Cardinality(DataFiles) >= 2
    /\ Len(epoch_data.a) >= 3

\* C7 as stated, on aligned files: with non-decreasing hub times write_summary
\* leaves exactly one data file per month present, named by the month, holding
\* the records of that month in input order.
C7_AsStated ==
    (pc = "write_done" /\ AlignedInput /\ NonDecreasing) =>
        /\ DataFiles = {CdfName(ym) : ym \in MonthsPresent}
        /\ \A ym \in MonthsPresent :
              LET rows == RowsOfMonth(ym)
                  f == outdir[CdfName(ym)]
              IN  /\ f.Epoch = [r \in 1..Len(rows) |-> ToTT2000(HubTimes[rows[r] + 1])]
                  /\ f.Position =
                        [r \in 1..Len(rows) |->
                            [x \in 1..(NSC * 3) |->
                                Cell(inp, rows[r], (x - 1) \div 3, ((x - 1) % 3) + 1)]]
                  /\ f.Baseline =
                        [r \in 1..Len(rows) |->
                            [x \in 1..(NSC * NSC * 3) |->
                                Cell(inp, rows[r], ((x - 1) \div 3) % NSC, ((x - 1) % 3) + 1)
                                  - Cell(inp, rows[r], (x - 1) \div (3 * NSC), ((x - 1) % 3) + 1)]]
                  /\ f.True_Anomaly =
                        [r \in 1..Len(rows) |->
                            [x \in 1..NSC |-> Real4(Cell(inp, rows[r], x - 1, 5))]]

\* C7 holds from two rows on
C7_FromTwoRows == NRows >= 2 => C7_AsStated

\* the number of data rows of spacecraft s's file
RowsOfFile(s) == Len(inp.tseq[s])

\* the offset just after the first line of F that begins with "------"
RECURSIVE AfterUnderline(_, _)
AfterUnderline(bytes, p) ==
    IF StartsWithDashes(LineAt(bytes, p)) THEN p + Len(LineAt(bytes, p))
    ELSE AfterUnderline(bytes, p + Len(LineAt(bytes, p)))

\* C9: every pass starts at the offset recorded just after the underline, and
\* element t of the times, positions and true anomaly read from a file is the
\* time, fields 1..3 and field 5 of data row t of that file, nothing else.
C9_SameRows ==
    /\ pc \in {"dates", "positions", "true_anom"} =>
          /\ fpos = pos
          /\ pos = AfterUnderline(F, 0)
    /\ \A s \in SC :
          /\ s < Len(dates) =>
                dates[s + 1].a = [t \in 1..RowsOfFile(s) |-> TimePool[inp.tseq[s][t]]]
          /\ s < Len(positions) =>
                positions[s + 1].a =
                    [x \in 1..(3 * RowsOfFile(s)) |->
                        Cell(inp, (x - 1) \div 3, s, ((x - 1) % 3) + 1)]
          /\ s < Len(true_anom) =>
                true_anom[s + 1].a = [t \in 1..RowsOfFile(s) |-> Cell(inp, t - 1, s, 5)]

\* the third pass of node 5's file is about to start, the file has two rows and
\* the previous pass left the offset at the end of the file
C9_Witness ==
    /\ pc = "true_anom"
    /\ i = 5
    /\ RowsOfFile(5) >= 2
    /\ fpos = pos
    /\ fpos < Len(F)
    /\ Len(positions) = 6

(***************************************************************************)
(* SpecColumns: the underline is any line that ends the header scan, made  *)
(* of dashes and spaces, with an optional CR before the LF.                *)
(***************************************************************************)
SixDashes == [j \in 1..6 |-> DASH]

Tails == UNION {[1..n -> {DASH, SPACE}] : n \in 0..MaxTail}

UnderlineLines == {SixDashes \o t \o e : t \in Tails, e \in {<<LF>>, <<CR, LF>>}}

InitColumns ==
    /\ pc = "columns"
    /\ l \in UnderlineLines
    /\ colstart = <<>>
    /\ widths = <<>>
    /\ ReadIdle
    /\ WriteIdle
    /\ CdfIdle
    /\ PlotIdle

InferColumns ==
    /\ pc = "columns"
    /\ colstart' = ColStart(l)
    /\ widths' = Widths(ColStart(l))
    /\ pc' = "columns_done"
    /\ UNCHANGED <<l, readVars, writeVars, cdfVars, plotVars>>

NextColumns == InferColumns

SpecColumns == InitColumns /\ [][NextColumns]_vars

\* number of maximal runs of dashes in a line
DashGroups(ln) ==
    Cardinality({j \in 1..Len(ln) : ln[j] = DASH /\ (j = Len(ln) \/ ln[j + 1] # DASH)})

\* a space directly follows the last dash of the line
SpaceAfterLastGroup(ln) ==
    LET s == RStrip(ln) IN Len(s) < Len(ln) /\ ln[Len(s) + 1] = SPACE

\* C8 as stated: k dash groups give exactly k fields, all of positive width,
\* whose widths sum to the length of the stripped underline.
C8_AsStated ==
    pc = "columns_done" =>
        /\ colstart[1] = 0
        /\ Len(widths) = DashGroups(l)
        /\ \A k \in 1..Len(widths) : widths[k] > 0
        /\ Sum(widths) = Len(RStrip(l))

\* C8 amended: field 0 starts at 0, the later fields start at the dash-to-space
\* offsets, the last ends at the stripped length; k dash groups give k fields
\* of positive width, except that a space right after the last group adds one
\* more field, of width 0; the widths always sum to the stripped length.
C8_Columns ==
    pc = "columns_done" =>
        LET k == DashGroups(l)
            n == Len(widths)
        IN  /\ colstart[1] = 0
            /\ colstart[Len(colstart)] = Len(RStrip(l))
            /\ {colstart[j] : j \in 2..(Len(colstart) - 1)}
                 = {j \in 1..(Len(l) - 1) : l[j] = DASH /\ l[j + 1] = SPACE}
            /\ Sum(widths) = Len(RStrip(l))
            /\ IF SpaceAfterLastGroup(l)
               THEN n = k + 1 /\ widths[n] = 0 /\ \A j \in 1..k : widths[j] > 0
               ELSE n = k /\ \A j \in 1..k : widths[j] > 0

C8_Witness ==
    /\ pc = "columns_done"
    /\ DashGroups(l) = 3
    /\ SpaceAfterLastGroup(l)
    /\ Len(widths) = 4


(***************************************************************************)
(* SpecPlot: main() of hs-single-hour-baselines.py from the point where    *)
(* read_cdf_directory has returned position_data and epoch_data.           *)
(***************************************************************************)
\* 2029-08-07 00:00, in hours
SeriesStart == ToTT2000([year |-> 2029, month |-> 8, day |-> 7, hour |-> 0])

\* n records whose times are the given hours after SeriesStart; record t of
\* Position carries numbers no other record has
Series(hours) ==
    [epoch |-> [shape |-> <<Len(hours)>>,
                a |-> [t \in 1..Len(hours) |-> FromTT2000(SeriesStart + hours[t])]],
     position |-> [shape |-> <<Len(hours), NSC, 3>>,
                   a |-> [x \in 1..(Len(hours) * NSC * 3) |-> x]]]

PlotInputs ==
    \* an hourly series, and a target at, before or after any of its hours
    UNION {{[series |-> Series([t \in 1..n |-> t]), target |-> FromTT2000(SeriesStart + h)] :
                h \in 0..(n + 1)} : n \in 1..MaxLen}
    \cup
    \* records in any order, some at the same time, some equally far from the target
    UNION {{[series |-> Series(hs), target |-> FromTT2000(SeriesStart + h)] :
                hs \in [1..n -> {1, 2, 3, 5}], h \in 0..6} : n \in 1..MaxShort}

InitPlot ==
    /\ pc = "main"
    /\ \E in \in PlotInputs :
          /\ position_data = in.series.position
          /\ epoch_data = in.series.epoch
          /\ target_time = in.target
    /\ closest_index = 0
    /\ window = [exc |-> "", start_index |-> 0, end_index |-> 0, selected |-> <<>>]
    /\ sorted_files = <<>>
    /\ position_data_list = <<>>
    /\ epoch_data_list = <<>>
    /\ rret = [kind |-> "return"]
    /\ ColIdle
    /\ ReadIdle
    /\ WriteIdle

\* abs((time - target_time_dt).total_seconds())
TimeDiff(time, target) == Abs((ToTT2000(time) - ToTT2000(target)) * 3600)

\* a faulty variant: the last index of the minimum
RECURSIVE ArgMinLast(_)
ArgMinLast(v) ==
    IF Len(v) = 1 THEN 0
    ELSE LET b == ArgMinLast(SubSeq(v, 1, Len(v) - 1))
         IN  IF v[Len(v)] <= v[b + 1] THEN Len(v) - 1 ELSE b

\* numpy.argmin: a scan that keeps the first index of the minimum (0-based)
RECURSIVE ArgMin(_)
ArgMin(v) ==
    IF Len(v) = 1 THEN 0
    ELSE LET b == ArgMin(SubSeq(v, 1, Len(v) - 1))
         IN  IF v[Len(v)] < v[b + 1] THEN Len(v) - 1 ELSE b

\* find_closest_time_index(epoch_data, target_time)
FindClosest ==
    /\ pc = "main"
    /\ closest_index' =
          ArgMin([t \in 1..Len(epoch_data.a) |-> TimeDiff(epoch_data.a[t], target_time)])
    /\ pc' = "plot"
    /\ UNCHANGED <<target_time, window, cdfVars, colVars, readVars, writeVars>>

\* plot_positions: the window, and the record the plots take at window index 12
\* (x_data[12] raises an IndexError when the window has 12 records or fewer)
PlotPositions ==
    /\ pc = "plot"
    /\ LET start_index == Max(closest_index - 12, 0)
           end_index == Min(closest_index + 12, Len(epoch_data.a) - 1)
           position_data_window == Rows(position_data, start_index, end_index + 1)
       IN  window' = [exc |-> IF position_data_window.shape[1] <= 12 THEN "IndexError" ELSE "",
                      start_index |-> start_index,
                      end_index |-> end_index,
                      selected |-> IF position_data_window.shape[1] <= 12 THEN <<>>
                                   ELSE Records(position_data_window)[12 + 1]]
    /\ pc' = "plot_done"
    /\ UNCHANGED <<target_time, closest_index, cdfVars, colVars, readVars, writeVars>>

NextPlot == FindClosest \/ PlotPositions

SpecPlot == InitPlot /\ [][NextPlot]_vars

NEpochs == Len(epoch_data.a)

DiffAt(j) == TimeDiff(epoch_data.a[j + 1], target_time)

\* C4: the index returned is the lowest one whose time is closest to the target.
C4_Closest ==
    pc \in {"plot", "plot_done"} =>
        /\ closest_index \in 0..(NEpochs - 1)
        /\ \A j \in 0..(NEpochs - 1) : DiffAt(closest_index) <= DiffAt(j)
        /\ \A j \in 0..(closest_index - 1) : DiffAt(j) > DiffAt(closest_index)

\* two records are equally close to the target and the earlier one is returned
C4_Witness ==
    /\ pc = "plot"
    /\ \E j \in (closest_index + 1)..(NEpochs - 1) : DiffAt(j) = DiffAt(closest_index)
    /\ DiffAt(closest_index) > 0

\* C5 as stated: window index 12 exists and is the record at closest_index.
C5_AsStated ==
    pc = "plot_done" =>
        /\ window.exc = ""
        /\ window.selected = Records(position_data)[closest_index + 1]

====
